---- MODULE Spec2Model ----
(***************************************************************************)
(* Model of the analysis core of the Hospital Management System            *)
(* (main_hospital.py) and of the Streamlit session that drives it          *)
(* (gui_hospital.py).                                                      *)
(*                                                                         *)
(* Encoding of a DataFrame: a sequence of rows; every row carries its      *)
(* pandas index label (idx), which cleaning operations preserve.           *)
(* Encoding of cells:                                                      *)
(*   - numeric columns are integers (prepare_dataframe_for_app has filled  *)
(*     their missing values with 0);                                       *)
(*   - string columns are strings; NaN is the missing cell and ZeroCell    *)
(*     the integer 0 that fillna(0) writes into an object column;          *)
(*   - the date column holds tagged values: a Timestamp, NaT, or the       *)
(*     integer object that fillna(0) writes in place of NaT.               *)
(* A float mean is kept exact as a fraction [num, den].                    *)
(***************************************************************************)
EXTENDS Integers, Sequences, FiniteSets, TLC

VARIABLES df, raw, series, res, msg

vars == <<df, raw, series, res, msg>>

(***************************************************************************)
(* Bounds of the model.                                                    *)
(***************************************************************************)
MaxRecs == 2
MaxLen == 3
MaxVal == 2
MaxN == 3
MaxWindow == 4
MaxPeriods == 3

(***************************************************************************)
(* Cells.                                                                  *)
(***************************************************************************)
NaN == "nan"
ZeroCell == "0"

Timestamp(y, m, d) == [k |-> "ts", y |-> y, m |-> m, d |-> d]
NaT == [k |-> "nat"]
IntObj(n) == [k |-> "int", v |-> n]

IsTs(c) == c.k = "ts"

(***************************************************************************)
(* Calendar arithmetic of the monthly ('M', month-end) frequency.          *)
(***************************************************************************)
IsLeap(y) == (y % 4 = 0) /\ ((y % 100 # 0) \/ (y % 400 = 0))

DaysInMonth(y, m) ==
    IF m = 2 THEN (IF IsLeap(y) THEN 29 ELSE 28)
    ELSE IF m \in {4, 6, 9, 11} THEN 30 ELSE 31

\* Roll a timestamp forward to the end of its month (bin label of freq 'M').
MonthEndOf(t) == Timestamp(t.y, t.m, DaysInMonth(t.y, t.m))

\* Timestamp + MonthEnd(1): a month end moves to the next month end, any
\* other day moves to the end of its own month.
AddMonthEnd(t) ==
    IF t.d = DaysInMonth(t.y, t.m)
    THEN IF t.m = 12
         THEN Timestamp(t.y + 1, 1, DaysInMonth(t.y + 1, 1))
         ELSE Timestamp(t.y, t.m + 1, DaysInMonth(t.y, t.m + 1))
    ELSE MonthEndOf(t)

TsLess(a, b) ==
    \/ a.y < b.y
    \/ a.y = b.y /\ a.m < b.m
    \/ a.y = b.y /\ a.m = b.m /\ a.d < b.d

\* pd.to_datetime on the date column: Timestamps and NaT are kept, an
\* integer object is read as nanoseconds since 1970-01-01 00:00 (the only
\* integer fillna(0) writes is 0).
to_datetime(c) ==
    CASE c.k = "ts" -> c
      [] c.k = "nat" -> NaT
      [] c.k = "int" /\ c.v = 0 -> Timestamp(1970, 1, 1)

\* pd.date_range(start, periods, freq='M') for a start lying on a month end.
RECURSIVE date_range(_, _)
date_range(start, periods) ==
    IF periods <= 0 THEN <<>>
    ELSE <<start>> \o date_range(AddMonthEnd(start), periods - 1)

\* Only the first and the last bin: the months in between are not filled.
MonthBinsNoFill(cur, last) ==
    IF ~TsLess(cur, last) THEN <<cur>> ELSE <<cur, last>>

\* The month-end labels from the bin of `cur` up to the bin of `last`.
RECURSIVE MonthBins(_, _)
MonthBins(cur, last) ==
    IF ~TsLess(cur, last) THEN <<cur>>
    ELSE <<cur>> \o MonthBins(AddMonthEnd(cur), last)

(***************************************************************************)
(* Sequence helpers.                                                       *)
(***************************************************************************)
RECURSIVE SumSeq(_)
SumSeq(s) == IF s = <<>> THEN 0 ELSE Head(s) + SumSeq(Tail(s))

Min(a, b) == IF a <= b THEN a ELSE b

\* Series.head(n) / DataFrame.head(n) for n >= 0.
head(s, n) == SubSeq(s, 1, Min(n, Len(s)))

(***************************************************************************)
(* product_monthly_series                                                  *)
(***************************************************************************)
\* str(product_id): decimal rendering of the identifier.
Str(i) == CASE i = 0 -> "0" [] i = 1 -> "1" [] i = 2 -> "2" [] i = 3 -> "3"

\* Line 66: the row mask (id as string equals selector) OR (name equals it).
Matches(r, sel) == (Str(r.product_id) = sel) \/ (r.product_name = sel)

\* Sum of units_sold of the rows whose date falls in the bin labelled `lbl`.
RECURSIVE BinSum(_, _)
BinSum(rows, lbl) ==
    IF rows = <<>> THEN 0
    ELSE (IF MonthEndOf(Head(rows).date) = lbl THEN Head(rows).units_sold ELSE 0)
         + BinSum(Tail(rows), lbl)

\* Earliest / latest timestamp of a non-empty sequence of dated rows.
MinDate(rows) ==
    CHOOSE t \in {rows[i].date : i \in 1..Len(rows)} :
        \A i \in 1..Len(rows) : ~TsLess(rows[i].date, t)

MaxDate(rows) ==
    CHOOSE t \in {rows[i].date : i \in 1..Len(rows)} :
        \A i \in 1..Len(rows) : ~TsLess(t, rows[i].date)

\* Outcome of product_monthly_series(d, sel).  The groupby over
\* pd.Grouper(freq='M') leaves NaT rows out of every bin; when every
\* matched row is NaT the bin edges are NaT and building them raises.
product_monthly_series(d, sel) ==
    LET conv == [i \in 1..Len(d) |-> [d[i] EXCEPT !.date = to_datetime(d[i].date)]]
        matched == SelectSeq(conv, LAMBDA r : Matches(r, sel))
        dated == SelectSeq(matched, LAMBDA r : IsTs(r.date))
    IN  IF matched = <<>> THEN [status |-> "ok", value |-> <<>>]
        ELSE IF dated = <<>> THEN [status |-> "error", value |-> <<>>]
        ELSE LET bins == MonthBins(MonthEndOf(MinDate(dated)), MonthEndOf(MaxDate(dated)))
             IN  [status |-> "ok",
                  value |-> [i \in 1..Len(bins) |->
                                [t |-> bins[i], v |-> BinSum(dated, bins[i])]]]

(***************************************************************************)
(* moving_average_forecast                                                 *)
(***************************************************************************)
Max(a, b) == IF a >= b THEN a ELSE b

\* An expanding mean: the window is ignored.
rolling_mean_expanding(vals, window) ==
    [i \in 1..Len(vals) |-> [num |-> SumSeq(SubSeq(vals, 1, i)), den |-> i]]

\* Series.rolling(window, min_periods=1).mean() for window >= 1: at position
\* i the mean of the values at positions max(1, i-window+1) .. i.
rolling_mean(vals, window) ==
    [i \in 1..Len(vals) |->
        LET lo == Max(1, i - window + 1)
        IN  [num |-> SumSeq(SubSeq(vals, lo, i)), den |-> i - lo + 1]]

\* A forecast index that starts at the last observed month.
moving_average_forecast_from_last(s, window, periods) ==
    IF s = <<>> THEN [status |-> "ok", value |-> <<>>]
    ELSE IF window < 1 THEN [status |-> "error", value |-> <<>>]
    ELSE LET vals == [i \in 1..Len(s) |-> s[i].v]
             ma == rolling_mean(vals, window)
             idx == date_range(s[Len(s)].t, periods)
         IN  [status |-> "ok",
              value |-> [i \in 1..Len(idx) |-> [t |-> idx[i], v |-> ma[Len(ma)]]]]

\* Outcome of moving_average_forecast(s, window, periods), periods >= 0.
\* The series handed over by product_monthly_series holds no NaN, so
\* dropna() keeps every point.  rolling() raises on window < 1 (min_periods
\* = 1 exceeds a window of 0, a negative window is refused).  With
\* periods = 0 date_range returns an empty index and [last_ma]*0 is empty:
\* an empty Series is returned.
moving_average_forecast(s, window, periods) ==
    IF s = <<>> THEN [status |-> "ok", value |-> <<>>]
    ELSE IF window < 1 THEN [status |-> "error", value |-> <<>>]
    ELSE LET vals == [i \in 1..Len(s) |-> s[i].v]
             ma == rolling_mean(vals, window)
             last_ma == ma[Len(ma)]
             start == AddMonthEnd(s[Len(s)].t)
             idx == date_range(start, periods)
             forecasts == [i \in 1..Len(idx) |-> [t |-> idx[i], v |-> last_ma]]
         IN  [status |-> "ok", value |-> forecasts]

(***************************************************************************)
(* Aggregator: groupby / sort_values / head                                *)
(***************************************************************************)
\* Ascending order of group keys as groupby(sort=True) lists them: the
\* integer 0 first, then the strings in lexicographic order.
KeyOrder == <<ZeroCell, "A", "B", "C", "N", "S", "X", "Y">>

KeyRank(k) == CHOOSE i \in 1..Len(KeyOrder) : KeyOrder[i] = k

\* Sum of column `measure` over the rows whose column `key` equals k.
RECURSIVE GroupTotal(_, _, _, _)
GroupTotal(rows, key, measure, k) ==
    IF rows = <<>> THEN 0
    ELSE (IF Head(rows)[key] = k THEN Head(rows)[measure] ELSE 0)
         + GroupTotal(Tail(rows), key, measure, k)

\* The keys of `ks` in ascending order.
RECURSIVE SortedKeys(_)
SortedKeys(ks) ==
    IF ks = {} THEN <<>>
    ELSE LET k == CHOOSE x \in ks : \A y \in ks : KeyRank(x) <= KeyRank(y)
         IN  <<k>> \o SortedKeys(ks \ {k})

\* df.groupby(key)[measure].sum(): one entry per distinct key, rows whose
\* key is NaN left out (dropna=True), keys in ascending order.
groupby_sum(d, key, measure) ==
    LET ks == {d[i][key] : i \in 1..Len(d)} \ {NaN}
        order == SortedKeys(ks)
    IN  [i \in 1..Len(order) |->
            [key |-> order[i], total |-> GroupTotal(d, key, measure, order[i])]]

\* Ascending insertion: sort_values without ascending=False.
InsertAsc(sorted, x) ==
    LET n == Cardinality({i \in 1..Len(sorted) : sorted[i].total <= x.total})
    IN  SubSeq(sorted, 1, n) \o <<x>> \o SubSeq(sorted, n + 1, Len(sorted))

\* Insert x behind every entry whose total is >= x.total.
InsertDesc(sorted, x) ==
    LET n == Cardinality({i \in 1..Len(sorted) : sorted[i].total >= x.total})
    IN  SubSeq(sorted, 1, n) \o <<x>> \o SubSeq(sorted, n + 1, Len(sorted))

\* Series.sort_values(ascending=False): descending by total; entries with
\* equal totals keep the order they have in the input of the sort.
RECURSIVE sort_values_desc(_)
sort_values_desc(s) ==
    IF s = <<>> THEN <<>>
    ELSE InsertDesc(sort_values_desc(SubSeq(s, 1, Len(s) - 1)), s[Len(s)])

top_n_products_by_revenue(d, n) ==
    head(sort_values_desc(groupby_sum(d, "product_name", "sales_revenue")), n)

top_n_regions_by_revenue(d, n) ==
    head(sort_values_desc(groupby_sum(d, "region", "sales_revenue")), n)

(***************************************************************************)
(* reorder_alerts, revenue_summary, generate_charts                        *)
(***************************************************************************)
AlertRow(r) ==
    [idx |-> r.idx, product_id |-> r.product_id, product_name |-> r.product_name,
     region |-> r.region, stock_available |-> r.stock_available,
     reorder_level |-> r.reorder_level, supplier_name |-> r.supplier_name]

\* A strict comparison: stock equal to the reorder level is not reported.
reorder_alerts_strict(d) ==
    LET alerts == SelectSeq(d, LAMBDA r : r.stock_available < r.reorder_level)
    IN  [i \in 1..Len(alerts) |-> AlertRow(alerts[i])]

reorder_alerts(d) ==
    LET alerts == SelectSeq(d, LAMBDA r : r.stock_available <= r.reorder_level)
    IN  [i \in 1..Len(alerts) |-> AlertRow(alerts[i])]

revenue_summary(d) ==
    [total_revenue |-> SumSeq([i \in 1..Len(d) |-> d[i].sales_revenue]),
     by_category |-> sort_values_desc(groupby_sum(d, "category", "sales_revenue"))]

\* df['product_id'].nunique()
nunique_product_id(d) == Cardinality({d[i].product_id : i \in 1..Len(d)})

\* Chart 5 of generate_charts: the wedge sizes handed to plt.pie, which
\* raises on a negative wedge; no pie when there is no product.
reorder_status_counts(d) ==
    LET alerts == reorder_alerts(d)
        total_products == nunique_product_id(d)
    IN  IF total_products > 0
        THEN <<Len(alerts), total_products - Len(alerts)>>
        ELSE <<>>

generate_charts(d) ==
    LET counts == reorder_status_counts(d)
        dates == [i \in 1..Len(d) |-> to_datetime(d[i].date)]
        top_products == head(sort_values_desc(groupby_sum(d, "product_name", "sales_revenue")), 10)
        region_sales == sort_values_desc(groupby_sum(d, "region", "sales_revenue"))
        paths == {"monthly_units_sold"}
                 \cup (IF top_products # <<>> THEN {"top_products_revenue", "low_stock_products"} ELSE {})
                 \cup (IF region_sales # <<>> THEN {"region_sales"} ELSE {})
                 \cup (IF counts # <<>> THEN {"reorder_status"} ELSE {})
    IN  IF d # <<>> /\ \A i \in 1..Len(dates) : ~IsTs(dates[i])
        THEN [status |-> "error", counts |-> <<>>, chart_paths |-> {}]
        ELSE IF \E i \in 1..Len(counts) : counts[i] < 0
        THEN [status |-> "error", counts |-> counts, chart_paths |-> {}]
        ELSE [status |-> "ok", counts |-> counts, chart_paths |-> paths]

(***************************************************************************)
(* Cleaning functions                                                      *)
(***************************************************************************)
StringColumns == {"product_name", "region", "category", "supplier_name"}

\* DataFrame.fillna(0): every missing cell becomes the integer 0; the
\* datetime column turns into an object column holding 0 in place of NaT.
fill_missing_values(d) ==
    [i \in 1..Len(d) |->
        [c \in DOMAIN d[i] |->
            IF c \in StringColumns /\ d[i][c] = NaN THEN ZeroCell
            ELSE IF c = "date" /\ d[i][c] = NaT THEN IntObj(0)
            ELSE d[i][c]]]

HasMissing(r) == (r.date = NaT) \/ (\E c \in StringColumns : r[c] = NaN)

\* DataFrame.dropna(): rows with any missing cell are removed.
drop_missing_values(d) == SelectSeq(d, LAMBDA r : ~HasMissing(r))

\* DataFrame.drop_duplicates(subset=['product_id']): the first row of each
\* product_id is kept.
remove_duplicates(d) ==
    LET keep == {i \in 1..Len(d) : \A j \in 1..(i - 1) : d[j].product_id # d[i].product_id}
        F[i \in 0..Len(d)] ==
            IF i = 0 THEN <<>>
            ELSE IF i \in keep THEN Append(F[i - 1], d[i]) ELSE F[i - 1]
    IN  F[Len(d)]

\* rename_columns: strip / replace(' ', '_') / lower on the column names.
\* The session frame went through prepare_dataframe_for_app, whose first
\* step is rename_columns; the names are already in normal form and the
\* cells are not touched.
rename_columns(d) == d

(***************************************************************************)
(* Input domains.                                                          *)
(***************************************************************************)
Dates == {Timestamp(1971, 12, 15), Timestamp(1972, 2, 29), Timestamp(1972, 3, 1)}
Names == {"A", "B"}
Ids == {1, 2}
Regions == {"N", "S"}
Categories == {"X", "Y"}
Units == {1, 2}
Revenues == {0, 1, 2}
Stocks == {0, 1, 2}
Levels == {0, 1}
Selectors == {"A", "B", "1", "2", "C"}
SeriesStarts == {Timestamp(1971, 11, 30), Timestamp(1972, 1, 31)}

\* A row with the columns the analysis functions read.
Row(pid, name, region, cat, date, units, rev, stock, level) ==
    [idx |-> 0, product_id |-> pid, product_name |-> name, region |-> region,
     category |-> cat, date |-> date, units_sold |-> units, sales_revenue |-> rev,
     stock_available |-> stock, reorder_level |-> level, supplier_name |-> "S"]

\* The frame of the rows f[1], ..., f[n], labelled 1..n as read_excel
\* labels them (RangeIndex).
Frame(f) == [i \in DOMAIN f |-> [f[i] EXCEPT !.idx = i]]

\* Two identifiers share the name "A"; the name "B" has one identifier.
Products == {<<1, "A">>, <<2, "A">>, <<2, "B">>}

SeriesRows ==
    {Row(p[1], p[2], "N", "X", dt, u, 0, 0, 0) :
        p \in Products, dt \in Dates \cup {NaT}, u \in Units}

SessionRows ==
    {Row(p, IF p = 1 THEN "A" ELSE "B", "N", "X", dt, u, 0, 0, 0) :
        p \in Ids, dt \in Dates \cup {NaT}, u \in Units}

TopRows ==
    {Row(1, nm, rg, "X", Timestamp(1972, 3, 1), 0, rv, 0, 0) :
        nm \in Names \cup {NaN}, rg \in Regions, rv \in Revenues}

InventoryRows ==
    {Row(p, "A", "N", "X", Timestamp(1972, 3, 1), 0, 0, st, lv) :
        p \in Ids, st \in Stocks, lv \in Levels}

RevenueRows ==
    {Row(1, "A", "N", ct, Timestamp(1972, 3, 1), 0, rv, 0, 0) :
        ct \in Categories \cup {NaN}, rv \in Revenues}

\* Gap-free monthly series of at most MaxLen points, as
\* product_monthly_series returns them.
MonthlySeriesInputs ==
    UNION {{[i \in 1..n |-> [t |-> date_range(st, n)[i], v |-> f[i]]] :
                st \in SeriesStarts, f \in [1..n -> 0..MaxVal]} : n \in 0..MaxLen}

NoResult == [op |-> "none"]

\* The frame holds at most MaxRecs rows drawn from `rows`.
InitWith(rows, inputs) ==
    /\ \E n \in 0..MaxRecs : \E f \in [1..n -> rows] : df = Frame(f)
    /\ raw = df
    /\ series \in inputs
    /\ res = NoResult
    /\ msg = ""

(***************************************************************************)
(* Operations.                                                             *)
(***************************************************************************)
\* gui_hospital.py, "Fill missing with 0".
FillMissing ==
    /\ df' = fill_missing_values(df)
    /\ msg' = "Filled missing with 0."
    /\ res' = NoResult
    /\ UNCHANGED <<raw, series>>

\* gui_hospital.py, "Drop missing rows".
DropMissing ==
    /\ df' = drop_missing_values(df)
    /\ msg' = "Dropped rows with missing values."
    /\ res' = NoResult
    /\ UNCHANGED <<raw, series>>

\* gui_hospital.py, "Remove duplicates (product_id)".
RemoveDuplicates ==
    /\ df' = remove_duplicates(df)
    /\ msg' = "Removed duplicates."
    /\ res' = NoResult
    /\ UNCHANGED <<raw, series>>

\* gui_hospital.py, "Normalize columns".
NormalizeColumns ==
    /\ df' = rename_columns(df)
    /\ msg' = "Normalized columns."
    /\ res' = NoResult
    /\ UNCHANGED <<raw, series>>

\* A call product_monthly_series(df, sel).
SeriesCall ==
    \E sel \in Selectors :
        LET o == product_monthly_series(df, sel)
        IN  /\ res' = [op |-> "series", sel |-> sel, status |-> o.status, value |-> o.value]
            /\ UNCHANGED <<df, raw, series, msg>>

\* A call moving_average_forecast(series, window, periods).
ForecastCall ==
    \E window \in (-1)..MaxWindow, periods \in 0..MaxPeriods :
        LET o == moving_average_forecast(series, window, periods)
        IN  /\ res' = [op |-> "forecast", window |-> window, periods |-> periods,
                       status |-> o.status, value |-> o.value]
            /\ UNCHANGED <<df, raw, series, msg>>

\* A call top_n_products_by_revenue(df, n).
TopProductsCall ==
    \E n \in 0..MaxN :
        /\ res' = [op |-> "top", key |-> "product_name", n |-> n, status |-> "ok",
                   value |-> top_n_products_by_revenue(df, n)]
        /\ UNCHANGED <<df, raw, series, msg>>

\* A call top_n_regions_by_revenue(df, n).
TopRegionsCall ==
    \E n \in 0..MaxN :
        /\ res' = [op |-> "top", key |-> "region", n |-> n, status |-> "ok",
                   value |-> top_n_regions_by_revenue(df, n)]
        /\ UNCHANGED <<df, raw, series, msg>>

\* A call reorder_alerts(df).
ReorderAlertsCall ==
    /\ res' = [op |-> "alerts", status |-> "ok", value |-> reorder_alerts(df)]
    /\ UNCHANGED <<df, raw, series, msg>>

\* A call generate_charts(df).
GenerateChartsCall ==
    LET o == generate_charts(df)
    IN  /\ res' = [op |-> "charts", status |-> o.status, counts |-> o.counts,
                   chart_paths |-> o.chart_paths]
        /\ UNCHANGED <<df, raw, series, msg>>

\* A call revenue_summary(df).
RevenueSummaryCall ==
    LET o == revenue_summary(df)
    IN  /\ res' = [op |-> "revenue", status |-> "ok", total_revenue |-> o.total_revenue,
                   by_category |-> o.by_category]
        /\ UNCHANGED <<df, raw, series, msg>>

(***************************************************************************)
(* Specifications.                                                         *)
(***************************************************************************)
\* The session: the prepared frame, the cleaning buttons, the series call.
Init == InitWith(SessionRows, {<<>>})

Next ==
    \/ FillMissing
    \/ DropMissing
    \/ RemoveDuplicates
    \/ NormalizeColumns
    \/ SeriesCall

Spec == Init /\ [][Next]_vars

\* product_monthly_series over every bounded frame and selector.
InitSeries == InitWith(SeriesRows, {<<>>})

NextSeries == SeriesCall

SpecSeries == InitSeries /\ [][NextSeries]_vars

\* moving_average_forecast over every bounded series, window and horizon.
InitForecast == InitWith({}, MonthlySeriesInputs)

NextForecast == ForecastCall

SpecForecast == InitForecast /\ [][NextForecast]_vars

\* The top-N leaderboards.
InitTop == InitWith(TopRows, {<<>>})

NextTop == TopProductsCall \/ TopRegionsCall

SpecTop == InitTop /\ [][NextTop]_vars

\* reorder_alerts and the reorder-status chart.
InitInventory == InitWith(InventoryRows, {<<>>})

NextInventory == ReorderAlertsCall \/ GenerateChartsCall

SpecInventory == InitInventory /\ [][NextInventory]_vars

\* revenue_summary.
InitRevenue == InitWith(RevenueRows, {<<>>})

NextRevenue == RevenueSummaryCall

SpecRevenue == InitRevenue /\ [][NextRevenue]_vars

(***************************************************************************)
(* Vocabulary of the properties.                                           *)
(***************************************************************************)
\* Months counted from year 0.
MonthIndex(t) == t.y * 12 + t.m - 1

\* The rows of d selected by sel: identifier (as text) or name.
SelectedRows(d, sel) ==
    SelectSeq(d, LAMBDA r : Str(r.product_id) = sel \/ r.product_name = sel)

\* Units sold by `rows` in the month of index mi.
UnitsInMonth(rows, mi) ==
    SumSeq([i \in 1..Len(rows) |->
               IF MonthIndex(rows[i].date) = mi THEN rows[i].units_sold ELSE 0])

\* s lists every month from the first to the last month of the dated rows
\* `rows` (non-empty), once, ascending, with that month's units.
IsMonthlySeriesOf(s, rows) ==
    LET months == {MonthIndex(rows[i].date) : i \in 1..Len(rows)}
        lo == CHOOSE a \in months : \A b \in months : a <= b
        hi == CHOOSE a \in months : \A b \in months : a >= b
    IN  /\ Len(s) = hi - lo + 1
        /\ \A i \in 1..Len(s) :
              /\ MonthIndex(s[i].t) = lo + i - 1
              /\ s[i].v = UnitsInMonth(rows, lo + i - 1)
        /\ \A i \in 1..(Len(s) - 1) : MonthIndex(s[i + 1].t) = MonthIndex(s[i].t) + 1

\* Group keys of d under column key, and a group's total of column measure.
GroupKeys(d, key) == {d[i][key] : i \in 1..Len(d)} \ {NaN}

TotalOf(d, key, measure, g) ==
    SumSeq([i \in 1..Len(d) |-> IF d[i][key] = g THEN d[i][measure] ELSE 0])

\* Position of the first row of group g.
FirstSeen(d, key, g) ==
    CHOOSE i \in 1..Len(d) : d[i][key] = g /\ \A j \in 1..(i - 1) : d[j][key] # g

C1_WitnessEmpty ==
    /\ res.op = "series"
    /\ df # <<>>
    /\ res.status = "ok"
    /\ res.value = <<>>

\* C2: on a non-empty series of length L, with window >= 1 and
\* periods >= 1, every forecast entry has the same value, the arithmetic
\* mean of the last min(window, L) values of the series; on an empty series
\* the forecast is empty.
C2_FlatMovingAverage ==
    res.op = "forecast" =>
        /\ (series = <<>> => res.status = "ok" /\ res.value = <<>>)
        /\ (series # <<>> /\ res.window >= 1 /\ res.periods >= 1 =>
               LET L == Len(series)
                   k == Min(res.window, L)
                   tailsum == SumSeq([i \in 1..k |-> series[L - k + i].v])
               IN  /\ res.status = "ok"
                   /\ res.value # <<>>
                   /\ \A i \in 1..Len(res.value) :
                         /\ res.value[i].v.den > 0
                         /\ res.value[i].v.num * k = tailsum * res.value[i].v.den
                         /\ res.value[i].v = res.value[1].v)

\* A window shorter than the series: only the last two of three distinct
\* values are averaged, over three forecast months.
C2_Witness ==
    /\ res.op = "forecast"
    /\ Len(series) = 3
    /\ series[1].v # series[2].v
    /\ series[2].v # series[3].v
    /\ res.window = 2
    /\ res.periods = 3
    /\ res.status = "ok"
    /\ Len(res.value) = 3

\* C3: on a non-empty series, with valid parameters, the forecast has
\* exactly `periods` entries, starts the month after the last month of the
\* series, and the series followed by the forecast advances by exactly one
\* month at every step.
C3_ForecastIndex ==
    res.op = "forecast" /\ series # <<>> /\ res.window >= 1 /\ res.periods >= 1 =>
        LET all == [i \in 1..Len(series) |-> series[i].t]
                   \o [i \in 1..Len(res.value) |-> res.value[i].t]
        IN  /\ res.status = "ok"
            /\ Len(res.value) = res.periods
            /\ MonthIndex(res.value[1].t) = MonthIndex(series[Len(series)].t) + 1
            /\ \A i \in 1..(Len(all) - 1) : MonthIndex(all[i + 1]) = MonthIndex(all[i]) + 1

\* A series ending in December 1971 forecast over January to March 1972.
C3_Witness ==
    /\ res.op = "forecast"
    /\ series # <<>>
    /\ series[Len(series)].t = Timestamp(1971, 12, 31)
    /\ res.status = "ok"
    /\ Len(res.value) = 3
    /\ res.value[1].t = Timestamp(1972, 1, 31)
    /\ res.value[2].t = Timestamp(1972, 2, 29)

\* C4: moving_average_forecast on a non-empty series with window < 1 or
\* periods < 1 ends in an error and returns no forecast.
C4_RejectsBadParameters ==
    res.op = "forecast" /\ series # <<>> /\ (res.window < 1 \/ res.periods < 1) =>
        res.status = "error"

\* C5: a top-N leaderboard returns min(n, number of groups) distinct groups,
\* each with the sum of sales_revenue of its rows, in non-increasing order
\* of total, and no group left out has a total greater than a returned one.
C5_TopN ==
    res.op = "top" =>
        LET G == GroupKeys(df, res.key)
            v == res.value
            returned == {v[i].key : i \in 1..Len(v)}
        IN  /\ res.status = "ok"
            /\ Len(v) = Min(res.n, Cardinality(G))
            /\ \A i \in 1..Len(v) :
                  /\ v[i].key \in G
                  /\ v[i].total = TotalOf(df, res.key, "sales_revenue", v[i].key)
            /\ \A i, j \in 1..Len(v) :
                  i < j => v[i].key # v[j].key /\ v[i].total >= v[j].total
            /\ \A g \in G \ returned : \A i \in 1..Len(v) :
                  TotalOf(df, res.key, "sales_revenue", g) <= v[i].total

\* Two groups of different totals cut to the larger one.
C5_Witness ==
    /\ res.op = "top"
    /\ res.n = 1
    /\ Cardinality(GroupKeys(df, res.key)) = 2
    /\ Len(res.value) = 1
    /\ \E g \in GroupKeys(df, res.key) :
          TotalOf(df, res.key, "sales_revenue", g) < res.value[1].total

\* C6: in a top-N leaderboard, groups of equal total appear in the order in
\* which the groups are first met in the rows, and a cut inside a tie keeps
\* the groups met first.
C6_StableTieOrder ==
    res.op = "top" =>
        LET G == GroupKeys(df, res.key)
            v == res.value
            returned == {v[i].key : i \in 1..Len(v)}
        IN  /\ \A i, j \in 1..Len(v) :
                  i < j /\ v[i].total = v[j].total =>
                      FirstSeen(df, res.key, v[i].key) < FirstSeen(df, res.key, v[j].key)
            /\ \A g \in G \ returned : \A i \in 1..Len(v) :
                  v[i].total = TotalOf(df, res.key, "sales_revenue", g) =>
                      FirstSeen(df, res.key, v[i].key) < FirstSeen(df, res.key, g)

\* C7: reorder_alerts returns one alert row for each row with
\* stock_available <= reorder_level and for no other row, in the order of
\* the rows, and the frame it was called on is left as it was.
C7_ReorderAlerts ==
    res.op = "alerts" =>
        LET I == {i \in 1..Len(df) : df[i].stock_available <= df[i].reorder_level}
            v == res.value
        IN  /\ res.status = "ok"
            /\ Len(v) = Cardinality(I)
            /\ \A j \in 1..Len(v) :
                  /\ v[j].idx \in I
                  /\ v[j].product_id = df[v[j].idx].product_id
                  /\ v[j].product_name = df[v[j].idx].product_name
                  /\ v[j].region = df[v[j].idx].region
                  /\ v[j].stock_available = df[v[j].idx].stock_available
                  /\ v[j].reorder_level = df[v[j].idx].reorder_level
                  /\ v[j].supplier_name = df[v[j].idx].supplier_name
            /\ \A j, k \in 1..Len(v) : j < k => v[j].idx < v[k].idx
            /\ df = raw

\* Of two rows, the one with stock equal to its reorder level is reported
\* and the one with stock above it is not.
C7_Witness ==
    /\ res.op = "alerts"
    /\ Len(df) = 2
    /\ Len(res.value) = 1
    /\ res.value[1].stock_available = res.value[1].reorder_level
    /\ res.value[1].idx = 2

\* C8: revenue_summary returns the sum of sales_revenue as total_revenue and
\* the per-category sums in non-increasing order; a row without category
\* raises no error and keeps its revenue in the mapping, so that the sums of
\* the mapping add up to total_revenue.
C8_RevenueSummary ==
    res.op = "revenue" =>
        LET v == res.by_category
        IN  /\ res.status = "ok"
            /\ res.total_revenue = SumSeq([i \in 1..Len(df) |-> df[i].sales_revenue])
            /\ \A i, j \in 1..Len(v) : i < j => v[i].total >= v[j].total
            /\ SumSeq([i \in 1..Len(v) |-> v[i].total]) = res.total_revenue

\* C9: whatever cleaning buttons were pressed, a row whose date was missing
\* in the loaded data takes no part in product_monthly_series: the call
\* succeeds and returns the series of the matched rows that had a date.
C9_MissingDateExcluded ==
    res.op = "series" =>
        LET kept == SelectSeq(df, LAMBDA r : raw[r.idx].date # NaT)
            M == SelectedRows(kept, res.sel)
        IN  /\ res.status = "ok"
            /\ IF M = <<>> THEN res.value = <<>> ELSE IsMonthlySeriesOf(res.value, M)

\* C10: the two wedge sizes of the reorder-status pie are non-negative and
\* add up to the number of distinct product_id values.
C10_ReorderStatusCounts ==
    res.op = "charts" /\ df # <<>> =>
        /\ Len(res.counts) = 2
        /\ res.counts[1] >= 0
        /\ res.counts[2] >= 0
        /\ res.counts[1] + res.counts[2] = Cardinality({df[i].product_id : i \in 1..Len(df)})

====
